---- MODULE Spec2Model ----
(***************************************************************************)
(* Model of homework.py: the polling thread (main) and the control thread  *)
(* (repl) sharing the module-level run-state `state` under `state_lock`.   *)
(*                                                                         *)
(* Python values are modelled by shape:                                    *)
(*   None            the empty tuple <<>>                                  *)
(*   a present value the one-element tuple <<v>>  (Some(v))                *)
(*   a dict          a record with kind = "dict"; a key that is missing or *)
(*                   null reads as None, as dict.get gives it              *)
(*   a list          [kind |-> "list", items |-> <<...>>]                  *)
(***************************************************************************)
EXTENDS Integers, Sequences, FiniteSets, TLC

\* ---- bounds of the model ------------------------------------------------
MaxHw == 1
MaxDate == 2
MaxTime == 2
MaxCycles == 2

\* ---- Python values -------------------------------------------------------
None == <<>>

Some(v) == <<v>>

\* bool(x) of an optional string: None and "" are falsy
TruthyStr(x) == x # None /\ x[1] # ""

\* bool(x) of an optional integer: None and 0 are falsy
TruthyInt(x) == x # None /\ x[1] # 0

\* ---- constants of the program --------------------------------------------
HTTP_OK == 200

HOMEWORK_STATUSES ==
    [approved  |-> "Rabota proverena: revyueru vsyo ponravilos. Ura!",
     reviewing |-> "Rabota vzyata na proverku revyuerom.",
     rejected  |-> "Rabota proverena: u revyuera est zamechaniya."]

\* ---- the environment: credentials, operator input, upstream answers ------
TokenValues == {None, Some(""), Some("tok")}

Commands == {"s", "x", ""}

Names == {None, Some("hw1")}

StatusCodes == {None, Some("approved"), Some("reviewing"), Some("rejected"),
                Some("unknown")}

HomeworkRecords ==
    {[kind |-> "dict", homework_name |-> n, status |-> s] :
        n \in Names, s \in StatusCodes}

RECURSIVE SeqsUpTo(_, _)
SeqsUpTo(S, n) ==
    IF n = 0 THEN {<<>>}
    ELSE LET shorter == SeqsUpTo(S, n - 1)
         IN  shorter \cup {Append(q, x) : q \in {p \in shorter : Len(p) = n - 1},
                                          x \in S}

HomeworkValues ==
    {None, Some([kind |-> "str", items |-> <<>>])}
    \cup {Some([kind |-> "list", items |-> q]) : q \in SeqsUpTo(HomeworkRecords, MaxHw)}

Dates == {None} \cup {Some(d) : d \in 0..MaxDate}

Bodies ==
    {[kind |-> "notjson"], [kind |-> "list", items |-> <<>>]}
    \cup {[kind |-> "dict", homeworks |-> h, current_date |-> d] :
            h \in HomeworkValues, d \in Dates}

\* what requests.get meets: a transport failure, or a response with a status
\* code and a body
HttpOutcomes ==
    {[transport |-> "fail", status_code |-> 0, body |-> [kind |-> "notjson"]]}
    \cup {[transport |-> "ok", status_code |-> 500, body |-> [kind |-> "notjson"]]}
    \cup {[transport |-> "ok", status_code |-> HTTP_OK, body |-> b] : b \in Bodies}

\* ---- results of calls: a value or a raised exception ---------------------
NoVal == [kind |-> "none"]

Return(v) == [err |-> "none", cause |-> "none", val |-> v]

Raise(e, c) == [err |-> e, cause |-> c, val |-> NoVal]

VARIABLES
    state,              \* the shared run-state
    state_lock,         \* holder of state_lock: "free", "main" or "repl"
    PRACTICUM_TOKEN, TELEGRAM_TOKEN, TELEGRAM_CHAT_ID,
    mainPc,             \* position of the main thread
    replPc,             \* position of the repl thread
    command,            \* the last line read by repl
    current_timestamp,  \* main's cursor
    status_old,         \* main's last notified message
    response,           \* main's local `response`
    exc,                \* the exception that ended a thread of main, or "none"
    sent,               \* the messages handed to bot.send_message so far
    cycles,             \* one entry per cycle begun by main (history)
    checked_after_stop, \* main ran a loop-top check after repl's stop (history)
    stop_after_cycle    \* Some(n) once repl has stopped a RUNNING loop whose n-th
                        \* cycle had finished, n cycles begun so far (history)

vars == <<state, state_lock, PRACTICUM_TOKEN, TELEGRAM_TOKEN, TELEGRAM_CHAT_ID,
          mainPc, replPc, command, current_timestamp, status_old, response,
          exc, sent, cycles, checked_after_stop, stop_after_cycle>>

tokens == <<PRACTICUM_TOKEN, TELEGRAM_TOKEN, TELEGRAM_CHAT_ID>>

\* ---- the functions of homework.py ----------------------------------------

\* send_message: any failure of the bot is re-raised as TelegramError
send_message(bot_up, message) ==
    IF bot_up THEN Return(NoVal) ELSE Raise("TelegramError", "bot")

\* get_api_answer: every exception raised in the try block, the
\* APIStatusCodeError of a non-200 answer included, leaves as YandeksError
from_date(ts, now) == IF TruthyInt(ts) THEN ts[1] ELSE now

get_api_answer(ts, now, http) ==
    LET params == [from_date |-> from_date(ts, now)]
    IN  IF http.transport # "ok"
            THEN Raise("YandeksError", "ConnectionError")
        ELSE IF http.status_code # HTTP_OK
            THEN Raise("YandeksError", "APIStatusCodeError")
        ELSE IF http.body.kind = "notjson"
            THEN Raise("YandeksError", "JSONDecodeError")
        ELSE Return(http.body)

\* (variant) an empty homeworks list is taken for a missing key
check_response_EmptyIsMissing(resp) ==
    IF resp.kind # "dict"
        THEN Raise("TypeError", "not a dict")
    ELSE IF \/ resp.homeworks = None
            \/ resp.current_date = None
            \/ (resp.homeworks[1].kind = "list" /\ resp.homeworks[1].items = <<>>)
        THEN Raise("KeyError", "missing keys")
    ELSE IF resp.homeworks[1].kind # "list"
        THEN Raise("TypeError", "homeworks not a list")
    ELSE Return(resp.homeworks[1])

check_response(resp) ==
    IF resp.kind # "dict"
        THEN Raise("TypeError", "not a dict")
    ELSE IF resp.homeworks = None \/ resp.current_date = None
        THEN Raise("KeyError", "missing keys")
    ELSE IF resp.homeworks[1].kind # "list"
        THEN Raise("TypeError", "homeworks not a list")
    ELSE IF resp.homeworks[1].items = <<>>
        THEN Return([kind |-> "list", items |-> <<>>])
    ELSE Return(resp.homeworks[1])

\* the message text, kept as its two variable parts
Message(homework_name, verdict) == [name |-> homework_name, verdict |-> verdict]

\* parse_status: homework.get(...) exists on a dict only
parse_status(homework) ==
    IF homework.kind # "dict"
        THEN Raise("AttributeError", "no attribute get")
    ELSE IF homework.homework_name = None
        THEN Raise("KeyError", "homework_name")
    ELSE IF homework.status = None
        THEN Raise("KeyError", "status")
    ELSE IF homework.status[1] \in DOMAIN HOMEWORK_STATUSES
        THEN Return(Message(homework.homework_name[1],
                            HOMEWORK_STATUSES[homework.status[1]]))
    ELSE Raise("APIResponseError", "unknown status")

\* (variant) check_tokens that leaves TELEGRAM_CHAT_ID out
check_tokens_SkipsChatId ==
    TruthyStr(PRACTICUM_TOKEN) /\ TruthyStr(TELEGRAM_TOKEN)

check_tokens ==
    TruthyStr(PRACTICUM_TOKEN) /\ TruthyStr(TELEGRAM_TOKEN) /\ TruthyStr(TELEGRAM_CHAT_ID)

\* the except clause of main's loop
Handles(e) == e = "TelegramError"

\* the outcome of the rest of the try block: the exception that left it
\* ("none" if none), main's locals afterwards, the send_message calls made
Outcome(e, ts, old, msgs) == [err |-> e, ts |-> ts, old |-> old, sent |-> msgs]

\* (variant) the cursor is moved as soon as the payload is validated
ProcessResponse_CursorFirst(resp, ts, old, bot_up) ==
    LET homework == check_response(resp)
    IN  IF homework.err # "none" THEN Outcome(homework.err, ts, old, <<>>)
        ELSE LET status == parse_status(homework.val)
             IN  IF status.err # "none"
                     THEN Outcome(status.err, resp.current_date, old, <<>>)
                 ELSE IF Some(status.val) # old
                     THEN LET s == send_message(bot_up, status.val)
                          IN  IF s.err # "none"
                                  THEN Outcome(s.err, resp.current_date, old,
                                               <<status.val>>)
                              ELSE Outcome("none", resp.current_date,
                                           Some(status.val), <<status.val>>)
                 ELSE Outcome("none", resp.current_date, old, <<>>)

ProcessResponse(resp, ts, old, bot_up) ==
    LET homework == check_response(resp)
    IN  IF homework.err # "none" THEN Outcome(homework.err, ts, old, <<>>)
        ELSE LET status == parse_status(homework.val)
             IN  IF status.err # "none" THEN Outcome(status.err, ts, old, <<>>)
                 ELSE IF Some(status.val) # old
                     THEN LET s == send_message(bot_up, status.val)
                          IN  IF s.err # "none"
                                  THEN Outcome(s.err, ts, old, <<status.val>>)
                              ELSE Outcome("none", resp.current_date,
                                           Some(status.val), <<status.val>>)
                 ELSE Outcome("none", resp.current_date, old, <<>>)

\* ---- initial state --------------------------------------------------------
Init ==
    /\ state = "INITIAL"
    /\ state_lock = "free"
    /\ PRACTICUM_TOKEN \in TokenValues
    /\ TELEGRAM_TOKEN \in TokenValues
    /\ TELEGRAM_CHAT_ID \in TokenValues
    /\ mainPc = "check_tokens"
    /\ replPc = "input"
    /\ command = None
    /\ current_timestamp = None
    /\ status_old = None
    /\ response = NoVal
    /\ exc = "none"
    /\ sent = <<>>
    /\ cycles = <<>>
    /\ checked_after_stop = FALSE
    /\ stop_after_cycle = None

\* ---- the control thread ---------------------------------------------------
\* (variant) any non-empty line stops
ReplInput_AnyKey ==
    /\ replPc = "input"
    /\ \E c \in Commands :
        /\ command' = Some(c)
        /\ replPc' = IF c # "" THEN "lock" ELSE "input"
    /\ UNCHANGED <<state, state_lock, tokens, mainPc, current_timestamp,
                   status_old, response, exc, sent, cycles, checked_after_stop,
                   stop_after_cycle>>

ReplInput ==
    /\ replPc = "input"
    /\ \E c \in Commands :
        /\ command' = Some(c)
        /\ replPc' = IF c = "s" THEN "lock" ELSE "input"
    /\ UNCHANGED <<state, state_lock, tokens, mainPc, current_timestamp,
                   status_old, response, exc, sent, cycles, checked_after_stop,
                   stop_after_cycle>>

\* input() at end of input raises EOFError, which ends the thread
ReplEOF ==
    /\ replPc = "input"
    /\ replPc' = "eof"
    /\ UNCHANGED <<state, state_lock, tokens, mainPc, command, current_timestamp,
                   status_old, response, exc, sent, cycles, checked_after_stop,
                   stop_after_cycle>>

ReplAcquire ==
    /\ replPc = "lock"
    /\ state_lock = "free"
    /\ state_lock' = "repl"
    /\ replPc' = "set"
    /\ UNCHANGED <<state, tokens, mainPc, command, current_timestamp,
                   status_old, response, exc, sent, cycles, checked_after_stop,
                   stop_after_cycle>>

ReplStop ==
    /\ replPc = "set"
    /\ state' = "STOPPED"
    /\ state_lock' = "free"
    /\ replPc' = "done"
    /\ stop_after_cycle' =
            IF state = "RUNNING" /\ cycles # <<>> /\ cycles[Len(cycles)].over
                THEN Some(Len(cycles))
            ELSE stop_after_cycle
    /\ UNCHANGED <<tokens, mainPc, command, current_timestamp,
                   status_old, response, exc, sent, cycles, checked_after_stop>>

\* ---- the main thread ------------------------------------------------------
MainCheckTokens ==
    /\ mainPc = "check_tokens"
    /\ IF check_tokens
          THEN mainPc' = "lock_run" /\ exc' = exc
          ELSE mainPc' = "exit" /\ exc' = "SystemExit"
    /\ UNCHANGED <<state, state_lock, tokens, replPc, command, current_timestamp,
                   status_old, response, sent, cycles, checked_after_stop,
                   stop_after_cycle>>

MainAcquireRun ==
    /\ mainPc = "lock_run"
    /\ state_lock = "free"
    /\ state_lock' = "main"
    /\ mainPc' = "set_run"
    /\ UNCHANGED <<state, tokens, replPc, command, current_timestamp,
                   status_old, response, exc, sent, cycles, checked_after_stop,
                   stop_after_cycle>>

\* (variant) the cursor is left to get_api_answer's default
MainSetRunning_NoCursor ==
    /\ mainPc = "set_run"
    /\ state' = "RUNNING"
    /\ state_lock' = "free"
    /\ current_timestamp' = None
    /\ status_old' = None
    /\ mainPc' = "loop"
    /\ UNCHANGED <<tokens, replPc, command, response, exc, sent, cycles,
                   checked_after_stop, stop_after_cycle>>

MainSetRunning ==
    /\ mainPc = "set_run"
    /\ state' = "RUNNING"
    /\ state_lock' = "free"
    /\ \E now \in 1..MaxTime : current_timestamp' = Some(now)
    /\ status_old' = None
    /\ mainPc' = "loop"
    /\ UNCHANGED <<tokens, replPc, command, response, exc, sent, cycles,
                   checked_after_stop,
                   stop_after_cycle>>

\* (variant) the loop enters its critical section without waiting
MainAcquireLoop_NoWait ==
    /\ mainPc \in {"loop", "sleep"}
    /\ state_lock' = "main"
    /\ mainPc' = "check_state"
    /\ UNCHANGED <<state, tokens, replPc, command, current_timestamp,
                   status_old, response, exc, sent, cycles, checked_after_stop,
                   stop_after_cycle>>

\* the top of the loop, reached at first entry and when time.sleep returns
MainAcquireLoop ==
    /\ mainPc \in {"loop", "sleep"}
    /\ state_lock = "free"
    /\ state_lock' = "main"
    /\ mainPc' = "check_state"
    /\ UNCHANGED <<state, tokens, replPc, command, current_timestamp,
                   status_old, response, exc, sent, cycles, checked_after_stop,
                   stop_after_cycle>>

MainCheckState ==
    /\ mainPc = "check_state"
    /\ mainPc' = IF state = "STOPPED" THEN "done" ELSE "fetch"
    /\ state_lock' = "free"
    /\ checked_after_stop' = (checked_after_stop \/ replPc = "done")
    /\ UNCHANGED <<state, tokens, replPc, command, current_timestamp,
                   status_old, response, exc, sent, cycles, stop_after_cycle>>

\* history of one cycle: what the upstream and the bot do in it, the query's
\* from_date, main's locals when it began, the send_message calls made in it,
\* and whether main has left its try block
Cycle(http, bot_up, ts, old, now) ==
    [http |-> http, bot_up |-> bot_up, from_date |-> from_date(ts, now),
     ts0 |-> ts, old0 |-> old, sends |-> 0, over |-> FALSE]

MainFetch ==
    /\ mainPc = "fetch"
    /\ Len(cycles) < MaxCycles
    /\ \E http \in HttpOutcomes, bot_up \in BOOLEAN, now \in 1..MaxTime :
        LET r == get_api_answer(current_timestamp, now, http)
            c == Cycle(http, bot_up, current_timestamp, status_old, now)
        IN  IF r.err = "none"
                THEN /\ response' = r.val
                     /\ mainPc' = "process"
                     /\ exc' = exc
                     /\ cycles' = Append(cycles, c)
            ELSE /\ response' = response
                 /\ mainPc' = IF Handles(r.err) THEN "sleep" ELSE "crashed"
                 /\ exc' = IF Handles(r.err) THEN exc ELSE r.err
                 /\ cycles' = Append(cycles, [c EXCEPT !.over = TRUE])
    /\ UNCHANGED <<state, state_lock, tokens, replPc, command, current_timestamp,
                   status_old, sent, checked_after_stop,
                   stop_after_cycle>>

MainProcess ==
    /\ mainPc = "process"
    /\ LET n == Len(cycles)
           o == ProcessResponse(response, current_timestamp, status_old,
                                cycles[n].bot_up)
       IN  /\ current_timestamp' = o.ts
           /\ status_old' = o.old
           /\ sent' = sent \o o.sent
           /\ cycles' = [cycles EXCEPT ![n].sends = Len(o.sent), ![n].over = TRUE]
           /\ mainPc' = IF o.err = "none" \/ Handles(o.err) THEN "sleep" ELSE "crashed"
           /\ exc' = IF o.err = "none" \/ Handles(o.err) THEN exc ELSE o.err
    /\ UNCHANGED <<state, state_lock, tokens, replPc, command, response,
                   checked_after_stop,
                   stop_after_cycle>>

Next ==
    \/ ReplInput
    \/ ReplEOF
    \/ ReplAcquire
    \/ ReplStop
    \/ MainCheckTokens
    \/ MainAcquireRun
    \/ MainSetRunning
    \/ MainAcquireLoop
    \/ MainCheckState
    \/ MainFetch
    \/ MainProcess

Spec == Init /\ [][Next]_vars

\* the threads are scheduled whenever they can run; the operator's input
\* (ReplInput, ReplEOF) is not owed to the program
MainStep ==
    \/ MainCheckTokens
    \/ MainAcquireRun
    \/ MainSetRunning
    \/ MainAcquireLoop
    \/ MainCheckState
    \/ MainFetch
    \/ MainProcess

ReplStep == ReplAcquire \/ ReplStop

FairSpec == Spec /\ WF_vars(MainStep) /\ WF_vars(ReplStep)

\* the interpreter exits once the main thread and the non-daemon repl thread
\* have both ended
MainEnded == mainPc \in {"exit", "done", "crashed"}

ReplEnded == replPc \in {"done", "eof"}

ProcessOver == MainEnded /\ ReplEnded

\* ---- the cycles as the claims speak of them -------------------------------
CycleIds == 1..Len(cycles)

\* the poll of cycle c succeeded: HTTP 200 with a payload check_response accepts
PollOk(c) ==
    /\ c.http.transport = "ok"
    /\ c.http.status_code = HTTP_OK
    /\ check_response(c.http.body).err = "none"

\* the message of the homework record polled in cycle c: parse_status of the
\* first record of the validated list, None when there is no such message
PolledMessage(c) ==
    IF PollOk(c) /\ check_response(c.http.body).val.items # <<>>
        THEN LET m == parse_status(check_response(c.http.body).val.items[1])
             IN  IF m.err = "none" THEN Some(m.val) ELSE None
    ELSE None

AnyCredentialAbsent ==
    PRACTICUM_TOKEN = None \/ TELEGRAM_TOKEN = None \/ TELEGRAM_CHAT_ID = None

\* C1: once the run-state is STOPPED it never takes another value.
C1_StoppedIsTerminal == [][state = "STOPPED" => state' = "STOPPED"]_vars

\* C2: once main has run a loop-top check after repl's stop, it issues no
\* further fetch.
C2_StopHonoured == [][checked_after_stop => cycles' = cycles]_vars

\* C3: no error raised in a cycle by get_api_answer, check_response or
\* parse_status ends main's loop.
C3_CycleErrorsCaught ==
    ~(mainPc = "crashed"
      /\ exc \in {"YandeksError", "TypeError", "KeyError", "AttributeError",
                  "APIResponseError"})

\* C4: with a required credential absent, main never sets the run-state to
\* RUNNING and never issues a fetch or a send.
C4_NoStartWithoutCredentials ==
    AnyCredentialAbsent =>
        /\ state # "RUNNING"
        /\ mainPc \in {"check_tokens", "exit"}
        /\ cycles = <<>>
        /\ sent = <<>>

C4_Witness == AnyCredentialAbsent /\ mainPc = "exit" /\ replPc = "done"

\* C5: over a run of up to two consecutive cycles that poll the identical
\* message, a message not yet notified and the bot delivering,
\* send_message is invoked exactly once.
C5_DedupLaw ==
    \A i \in CycleIds :
        LET m == PolledMessage(cycles[i])
            two == i + 1 \in CycleIds /\ PolledMessage(cycles[i + 1]) = m
            second == IF two /\ cycles[i + 1].over THEN cycles[i + 1].sends ELSE 0
        IN  (m # None /\ m # cycles[i].old0 /\ cycles[i].bot_up /\ cycles[i].over)
                => cycles[i].sends + second = 1

\* C6: in every cycle a notification is sent if and only if the freshly
\* polled message differs from status_old, and at most one is sent.
C6_SendIffChanged ==
    \A i \in CycleIds :
        LET m == PolledMessage(cycles[i])
        IN  cycles[i].over =>
                cycles[i].sends = IF m # None /\ m # cycles[i].old0 THEN 1 ELSE 0

\* C7: a cycle in which the delivery of a new message fails does not end the
\* loop and leaves status_old unchanged.
C7_SendFailureSurvived ==
    \A i \in CycleIds :
        LET m == PolledMessage(cycles[i])
        IN  (cycles[i].over /\ i = Len(cycles)
             /\ m # None /\ m # cycles[i].old0 /\ ~cycles[i].bot_up)
                => mainPc # "crashed" /\ status_old = cycles[i].old0

\* C8: a cycle whose payload is valid with an empty homeworks list sends
\* nothing, moves the cursor to the payload's current_date and goes on.
C8_EmptyListIsNoOp ==
    \A i \in CycleIds :
        (cycles[i].over /\ i = Len(cycles) /\ PollOk(cycles[i])
         /\ cycles[i].http.body.homeworks[1].items = <<>>)
            => /\ cycles[i].sends = 0
               /\ current_timestamp = cycles[i].http.body.current_date
               /\ mainPc # "crashed"

\* C9: after a cycle whose poll succeeded the cursor equals the current_date
\* of that response.
C9_CursorFollowsCurrentDate ==
    \A i \in CycleIds :
        (cycles[i].over /\ i = Len(cycles) /\ PollOk(cycles[i]))
            => current_timestamp = cycles[i].http.body.current_date

\* the cycle failed in the fetch, the validation or the parsing
CycleFailed(c) ==
    \/ get_api_answer(c.ts0, c.from_date, c.http).err # "none"
    \/ check_response(c.http.body).err # "none"
    \/ parse_status(check_response(c.http.body).val).err # "none"

\* C10: a cycle in which the fetch, the validation or the parsing fails leaves
\* current_timestamp and status_old as they were before the cycle.
C10_FailedCycleFrame ==
    \A i \in CycleIds :
        (cycles[i].over /\ i = Len(cycles) /\ CycleFailed(cycles[i]))
            => current_timestamp = cycles[i].ts0 /\ status_old = cycles[i].old0

C10_Witness ==
    /\ cycles # <<>>
    /\ cycles[Len(cycles)].over
    /\ PollOk(cycles[Len(cycles)])
    /\ CycleFailed(cycles[Len(cycles)])
    /\ cycles[Len(cycles)].http.body.current_date # cycles[Len(cycles)].ts0
    /\ current_timestamp = cycles[Len(cycles)].ts0

LastCycle == cycles[Len(cycles)]

\* C11: a non-200 answer reaches the caller of get_api_answer as an
\* APIStatusCodeError, distinct from the connection error.
C11_StatusCodeErrorDistinct ==
    (/\ cycles # <<>>
     /\ LastCycle.over
     /\ LastCycle.http.transport = "ok"
     /\ LastCycle.http.status_code # HTTP_OK)
        => /\ get_api_answer(LastCycle.ts0, LastCycle.from_date,
                             LastCycle.http).err = "APIStatusCodeError"
           /\ exc = "APIStatusCodeError"

\* the payload of cycle c is a mapping whose homeworks is the empty list
EmptyHomeworks(c) ==
    /\ c.http.transport = "ok"
    /\ c.http.status_code = HTTP_OK
    /\ c.http.body.kind = "dict"
    /\ c.http.body.homeworks = Some([kind |-> "list", items |-> <<>>])

EmptyListReturned(c) ==
    /\ check_response(c.http.body) = Return([kind |-> "list", items |-> <<>>])
    /\ exc \notin {"KeyError", "TypeError"}

\* C12 (as claimed): for every payload whose homeworks is an empty list,
\* current_date absent included, check_response returns an empty list and
\* raises nothing.
C12_EmptyNeverRaises ==
    (cycles # <<>> /\ LastCycle.over /\ EmptyHomeworks(LastCycle))
        => EmptyListReturned(LastCycle)

\* C12 (amended): for every payload whose homeworks is an empty list and whose
\* current_date is present, check_response returns an empty list and raises
\* nothing.
C12_EmptyWithDateNeverRaises ==
    (/\ cycles # <<>>
     /\ LastCycle.over
     /\ EmptyHomeworks(LastCycle)
     /\ LastCycle.http.body.current_date # None)
        => EmptyListReturned(LastCycle)

C12_Witness ==
    /\ cycles # <<>>
    /\ LastCycle.over
    /\ EmptyHomeworks(LastCycle)
    /\ LastCycle.http.body.current_date # None
    /\ mainPc = "crashed"
    /\ exc = "AttributeError"

\* the first polled record of cycle c has a name and a status code outside
\* the table
UnknownStatusPolled(c) ==
    /\ c.http.transport = "ok"
    /\ c.http.status_code = HTTP_OK
    /\ c.http.body.kind = "dict"
    /\ c.http.body.homeworks # None
    /\ c.http.body.homeworks[1].kind = "list"
    /\ c.http.body.homeworks[1].items # <<>>
    /\ LET h == c.http.body.homeworks[1].items[1]
       IN  /\ h.homework_name # None
           /\ h.status # None
           /\ h.status[1] \notin DOMAIN HOMEWORK_STATUSES

\* C13: a cycle that polls a record with an unknown status code fails in
\* parse_status with the unknown-status-code error, and sends nothing.
C13_UnknownStatusFailsInParse ==
    (cycles # <<>> /\ LastCycle.over /\ UnknownStatusPolled(LastCycle))
        => exc = "APIResponseError" /\ LastCycle.sends = 0

\* C14: once the stop is accepted with the run-state RUNNING and a cycle
\* finished, main is in its sleep or at the loop top on its way out, and
\* begins no further cycle.
C14_StopDuringSleep ==
    stop_after_cycle # None =>
        /\ mainPc \in {"sleep", "check_state", "done"}
        /\ Len(cycles) = stop_after_cycle[1]
        /\ Len(sent) <= stop_after_cycle[1]

\* C15: with a required credential absent, the process (both threads) ends
\* without any operator input.
C15_StartupExit == AnyCredentialAbsent ~> ProcessOver

\* C16: an input other than "s" leaves the run-state unchanged and repl
\* prompts again; repl writes the run-state once, the value STOPPED, after
\* reading "s".
C16_ReplOnlyStops ==
    [][/\ (/\ replPc = "input"
           /\ command' # command
           /\ command' # Some("s")) => (state' = state /\ replPc' = "input")
       /\ (replPc' # replPc /\ state' # state) =>
              /\ replPc = "set"
              /\ command = Some("s")
              /\ state' = "STOPPED"
              /\ replPc' = "done"
       /\ (replPc = "done" => replPc' = "done")]_vars

C16_Witness == command = Some("x") /\ replPc = "input" /\ state = "RUNNING"

C18_SleepBetweenFetches ==
    (cycles # <<>> /\ LastCycle.over /\ PolledMessage(LastCycle) # None)
        => mainPc \in {"sleep", "check_state", "fetch", "done"}

\* C19: in the polling loop the cursor is never None and every fetch carries
\* a defined from_date.
C19_CursorDefined ==
    /\ mainPc \in {"loop", "check_state", "fetch", "process", "sleep", "done",
                   "crashed"} => current_timestamp # None
    /\ \A i \in CycleIds : cycles[i].ts0 # None /\ cycles[i].from_date \in Nat

C19_Witness == mainPc = "process" /\ cycles # <<>> /\ current_timestamp # None

====
